---- MODULE Spec2Model ----
(***************************************************************************)
(* pysocket_template: the codec of pysocket/pack.py (dumps, loads) and the *)
(* framed channel of pysocket/server.py (Client.send, Client.recv) over a  *)
(* byte-stream connection.                                                 *)
(*                                                                         *)
(* One sending end runs Client.send (or is a foreign peer writing raw      *)
(* bytes), one receiving end runs Client.recv on the other end of the same *)
(* connection.  A byte is an integer in 0..255, a byte string a sequence   *)
(* of bytes.  A Python value is a record of its type name t and its content.    *)
(***************************************************************************)
EXTENDS Integers, Sequences, FiniteSets, TLC

(***************************************************************************)
(* Scale of the model.  Client.header is 64 and Client.packet_size is 8192 *)
(* in the source (server.py lines 62 and 64); the model keeps the code     *)
(* that uses them and scales the two widths down so that a payload spans   *)
(* several packets and a length can outgrow the header.                    *)
(***************************************************************************)
header == 2
packet_size == 3
\* the number of bytes of the long bytes object of Values
BigLen == 95
\* the most bytes a foreign peer writes
MaxRaw == 4

(***************************************************************************)
(* Byte strings                                                            *)
(***************************************************************************)
SP == 32
MINUS == 45
PLUS == 43
UNDERSCORE == 95
DIGIT0 == 48

Min(a, b) == IF a < b THEN a ELSE b

\* data[:n]
Take(s, n) == SubSeq(s, 1, Min(n, Len(s)))
\* data[n:]
Drop(s, n) == SubSeq(s, Min(n, Len(s)) + 1, Len(s))

RECURSIVE SumRange(_, _, _)
\* s[lo] + ... + s[hi]
SumRange(s, lo, hi) ==
    IF lo > hi THEN 0
    ELSE IF lo = hi THEN s[lo]
    ELSE LET mid == (lo + hi) \div 2
         IN  SumRange(s, lo, mid) + SumRange(s, mid + 1, hi)

Sum(s) == SumRange(s, 1, Len(s))

\* the result of a call that returns a value or raises
Ok(x) == [ok |-> TRUE, v |-> x, err |-> ""]
Raise(e) == [ok |-> FALSE, v |-> <<>>, err |-> e]

(***************************************************************************)
(* Python values                                                           *)
(***************************************************************************)
\* a Python int has no width: it is kept as <<hi, lo>>, its value hi * 65536 + lo
\* with lo in 0..65535, so that 2^32 and beyond can be written
Wide(n) == << n \div 65536, n % 65536 >>

PyBool(b) == [t |-> "bool", b |-> b]
PyInt(i) == [t |-> "int", i |-> Wide(i)]
\* the int hi * 65536 + lo
PyIntWide(hi, lo) == [t |-> "int", i |-> << hi, lo >>]
\* a float, named by its literal
PyFloat(name) == [t |-> "float", f |-> name]
\* a str: its code points
PyStr(cps) == [t |-> "str", s |-> cps]
PyBytes(bs) == [t |-> "bytes", bs |-> bs]
PyTuple(xs) == [t |-> "tuple", xs |-> xs]
PyList(xs) == [t |-> "list", xs |-> xs]
\* a dict: its (key, value) pairs in iteration order
PyDict(kvs) == [t |-> "dict", kvs |-> kvs]
\* a set: a type outside ALLOWED_TYPES
PySet(xs) == [t |-> "set", xs |-> xs]
None == [t |-> "NoneType"]

(***************************************************************************)
(* pack.py                                                                 *)
(***************************************************************************)
\* struct.pack("<I", i) for i = <<hi, lo>>: four bytes, least significant
\* first; struct.error when i is outside 0..2^32-1 (hi outside 0..65535), so
\* the length test of pack_int never fires
pack_int(i) ==
    IF i[1] < 0 \/ i[1] >= 65536
    THEN Raise("struct.error")
    ELSE LET packed == << i[2] % 256, i[2] \div 256, i[1] % 256, i[1] \div 256 >>
         IN  IF Len(packed) # 4 THEN Raise("ValueError") ELSE Ok(packed)

\* struct.pack("f", i) on a little-endian build: the four bytes of the
\* IEEE-754 single nearest to i, so the length test never fires
pack_float(name) ==
    LET packed == CASE name = "1.5" -> <<0, 0, 192, 63>>
                    [] name = "0.1" -> <<205, 204, 204, 61>>
                    [] OTHER -> <<0, 0, 0, 0>>
    IN  IF Len(packed) # 4 THEN Raise("ValueError") ELSE Ok(packed)

\* str.encode() of one code point (UTF-8)
Utf8(cp) ==
    IF cp < 128 THEN << cp >>
    ELSE IF cp < 2048 THEN << 192 + (cp \div 64), 128 + (cp % 64) >>
    ELSE IF cp < 65536
         THEN << 224 + (cp \div 4096), 128 + ((cp \div 64) % 64), 128 + (cp % 64) >>
    ELSE << 240 + (cp \div 262144), 128 + ((cp \div 4096) % 64),
            128 + ((cp \div 64) % 64), 128 + (cp % 64) >>

RECURSIVE encode(_)
\* str.encode()
encode(cps) == IF cps = <<>> THEN <<>> ELSE Utf8(Head(cps)) \o encode(Tail(cps))

RECURSIVE dumps(_), dumps_seq(_), dumps_items(_)
\* a loop over obj that leaves out the elements dumps raises on
dumps_seq_skipping(xs) ==
    IF xs = <<>> THEN Ok(<<>>)
    ELSE LET d == dumps(Head(xs))
             r == dumps_seq(Tail(xs))
         IN  IF ~r.ok THEN r ELSE Ok((IF d.ok THEN d.v ELSE <<>>) \o r.v)

\* data += dumps(o) for o in obj; the first raise ends the loop
dumps_seq(xs) ==
    IF xs = <<>> THEN Ok(<<>>)
    ELSE LET d == dumps(Head(xs))
         IN  IF ~d.ok THEN d
             ELSE LET r == dumps_seq(Tail(xs))
                  IN  IF ~r.ok THEN r ELSE Ok(d.v \o r.v)

\* a loop over obj.items() that writes each value before its key
dumps_items_swapped(kvs) ==
    IF kvs = <<>> THEN Ok(<<>>)
    ELSE LET o == dumps(Head(kvs)[2])
         IN  IF ~o.ok THEN o
             ELSE LET k == dumps(Head(kvs)[1])
                  IN  IF ~k.ok THEN k
                      ELSE LET r == dumps_items(Tail(kvs))
                           IN  IF ~r.ok THEN r ELSE Ok(o.v \o k.v \o r.v)

\* data += dumps(key); data += dumps(o) for key, o in obj.items()
dumps_items(kvs) ==
    IF kvs = <<>> THEN Ok(<<>>)
    ELSE LET k == dumps(Head(kvs)[1])
         IN  IF ~k.ok THEN k
             ELSE LET o == dumps(Head(kvs)[2])
                  IN  IF ~o.ok THEN o
                      ELSE LET r == dumps_items(Tail(kvs))
                           IN  IF ~r.ok THEN r ELSE Ok(k.v \o o.v \o r.v)

dumps(obj) ==
    IF obj.t = "bool"
    THEN Ok(<<0>> \o (IF obj.b THEN <<1>> ELSE <<0>>))
    ELSE IF obj.t = "int"
    THEN LET p == pack_int(obj.i) IN IF ~p.ok THEN p ELSE Ok(<<1>> \o p.v)
    ELSE IF obj.t = "float"
    THEN LET p == pack_float(obj.f) IN IF ~p.ok THEN p ELSE Ok(<<2>> \o p.v)
    ELSE IF obj.t = "str"
    THEN LET p == pack_int(Wide(Len(obj.s)))
         IN  IF ~p.ok THEN p ELSE Ok(<<3>> \o p.v \o encode(obj.s))
    ELSE IF obj.t = "bytes"
    THEN LET p == pack_int(Wide(Len(obj.bs)))
         IN  IF ~p.ok THEN p ELSE Ok(<<4>> \o p.v \o obj.bs)
    ELSE IF obj.t = "tuple" \/ obj.t = "list"
    THEN LET p == pack_int(Wide(Len(obj.xs)))
         IN  IF ~p.ok THEN p
             ELSE LET r == dumps_seq(obj.xs)
                  IN  IF ~r.ok THEN r
                      ELSE Ok((IF obj.t = "tuple" THEN <<5>> ELSE <<6>>) \o p.v \o r.v)
    ELSE IF obj.t = "dict"
    THEN LET p == pack_int(Wide(Len(obj.kvs)))
         IN  IF ~p.ok THEN p
             ELSE LET r == dumps_items(obj.kvs)
                  IN  IF ~r.ok THEN r ELSE Ok(<<7>> \o p.v \o r.v)
    ELSE Raise("NotImplementedError")

\* loads has a docstring and no statement: every call returns None
loads(data) == None

\* utils.py: dumps and loads, each a docstring and no statement (server.py
\* imports the two of pack.py, not these)
utils_dumps(obj) == None
utils_loads(data) == None

(***************************************************************************)
(* The cipher: cryptography.fernet.Fernet, built from the key.  A token is *)
(* a version byte, a nonce, the data masked under the key and the nonce,   *)
(* and an authentication byte over all of it under the key; decrypt        *)
(* raises InvalidToken unless the token authenticates under its own key.   *)
(***************************************************************************)
Keys == {1, 2}
IVs == {0, 1}

Mac(key, body) == (key * 101 + Sum(body)) % 256

\* Fernet(key).encrypt(data), with the nonce it drew
encrypt(key, iv, data) ==
    LET body == <<128, iv>> \o [i \in 1..Len(data) |-> (data[i] + key + iv) % 256]
    IN  body \o << Mac(key, body) >>

\* Fernet(key).decrypt(token)
decrypt(key, token) ==
    IF Len(token) < 3 THEN Raise("InvalidToken")
    ELSE LET body == SubSeq(token, 1, Len(token) - 1)
             iv == token[2]
         IN  IF token[1] # 128 \/ token[Len(token)] # Mac(key, body)
             THEN Raise("InvalidToken")
             ELSE Ok([i \in 1..(Len(token) - 3) |-> (token[i + 2] - key - iv) % 256])

(***************************************************************************)
(* str(n) and int(b) as Client.send and Client.recv use them               *)
(***************************************************************************)
RECURSIVE str(_)
\* str(n).encode() for n >= 0: the decimal digits
str(n) == IF n < 10 THEN << DIGIT0 + n >> ELSE str(n \div 10) \o << DIGIT0 + (n % 10) >>

\* bytes.isspace
IsSpace(b) == b \in {SP, 9, 10, 11, 12, 13}
IsDigit(b) == b >= DIGIT0 /\ b <= DIGIT0 + 9

RECURSIVE lstrip(_)
lstrip(s) == IF s # <<>> /\ IsSpace(Head(s)) THEN lstrip(Tail(s)) ELSE s

RECURSIVE rstrip(_)
rstrip(s) ==
    IF s # <<>> /\ IsSpace(s[Len(s)]) THEN rstrip(SubSeq(s, 1, Len(s) - 1)) ELSE s

RECURSIVE digits_value(_, _)
\* the value of digits and underscores read after acc; -1 when they are not
\* digits separated by single underscores
digits_value(s, acc) ==
    IF s = <<>> THEN acc
    ELSE IF IsDigit(Head(s)) THEN digits_value(Tail(s), acc * 10 + (Head(s) - DIGIT0))
    ELSE IF Head(s) = UNDERSCORE /\ Len(s) >= 2 /\ IsDigit(s[2])
         THEN digits_value(Tail(s), acc)
    ELSE -1

\* int(b) of a byte string: surrounding whitespace dropped, one optional sign,
\* then decimal digits; ValueError otherwise
int(b) ==
    LET t == rstrip(lstrip(b))
        signed == t # <<>> /\ Head(t) \in {MINUS, PLUS}
        body == IF signed THEN Tail(t) ELSE t
        mag == IF body = <<>> \/ ~IsDigit(Head(body)) THEN -1 ELSE digits_value(body, 0)
    IN  IF mag < 0 THEN Raise("ValueError")
        ELSE Ok(IF signed /\ Head(t) = MINUS THEN 0 - mag ELSE mag)

(***************************************************************************)
(* server.py, class Client: the pieces of send and recv                    *)
(***************************************************************************)
\* padding of zeros, not of spaces
padding_zeros == [i \in 1..header |-> DIGIT0]

\* self.padding = " " * self.header
padding == [i \in 1..header |-> SP]

\* (str(len(data)) + self.padding)[:self.header].encode()
LenMsg(data) == Take(str(Len(data)) \o padding, header)

RECURSIVE PacketsTooLong(_)
\* packets of packet_size + 1 bytes
PacketsTooLong(data) ==
    IF data = <<>> THEN <<>>
    ELSE LET curr_len == Min(Len(data), packet_size + 1)
         IN  << Take(data, curr_len) >> \o PacketsTooLong(Drop(data, curr_len))

RECURSIVE Packets(_)
\* the while data: loop of send: data[:curr_len] for curr_len =
\* min(len(data), self.packet_size), then the rest
Packets(data) ==
    IF data = <<>> THEN <<>>
    ELSE LET curr_len == Min(Len(data), packet_size)
         IN  << Take(data, curr_len) >> \o Packets(Drop(data, curr_len))

\* a header loop that asks for header bytes whatever it already has
HeaderRequestWhole(len_msg) == header

\* the byte count recv asks of conn.recv in the header loop
HeaderRequest(len_msg) == header - Len(len_msg)

\* curr_len without the bytes still missing: a whole packet each time
PayloadRequestWholePacket(length, data) == packet_size

\* curr_len of the payload loop of recv
PayloadRequest(length, data) == Min(packet_size, length - Len(data))

\* the objects handed to send
BigBytes == [i \in 1..BigLen |-> 0]
Values ==
    { PyBool(TRUE), PyInt(258), PyFloat("1.5"), PyStr(<<104, 233>>), PyList(<<>>),
      PyDict(<<>>), PyDict(<< << PyStr(<<97>>), PyBool(FALSE) >> >>),
      PyTuple(<< PyInt(1), PyStr(<<97>>) >>), PyBytes(BigBytes), PyInt(-1),
      PySet(<<>>),
      \* 2^32 - 1 and 2^32
      PyIntWide(65535, 65535), PyIntWide(65536, 0),
      \* a list in a list
      PyList(<< PyList(<< PyBool(FALSE) >>) >>),
      \* a value outside ALLOWED_TYPES as element, as key, as mapped value, two
      \* levels down, and after an element that does not pack
      PyList(<< PyBool(TRUE), PySet(<<>>) >>),
      PyDict(<< << None, PyBool(TRUE) >> >>),
      PyDict(<< << PyStr(<<97>>), PySet(<<>>) >> >>),
      PyTuple(<< PyList(<< None >>) >>),
      PyTuple(<< PyIntWide(65536, 0), PySet(<<>>) >>) }

\* the bytes a foreign peer writes: space, '-', '1', '3', 'x'
RawBytes == {SP, MINUS, DIGIT0 + 1, DIGIT0 + 3, 120}

VARIABLES
    peer,            \* "client": the sending end runs Client.send; "raw": a foreign peer
    s_key,           \* the key of the sending end's cipher
    r_key,           \* the key of the receiving end's cipher
    s_pc,            \* send: "idle", "header", "packets", "returned", "raised"
    s_obj,           \* send: obj
    s_err,           \* send: the exception raised
    s_data,          \* send: data of line 80, the payload
    s_len_msg,       \* send: len_msg
    s_packets,       \* send: the packets not yet handed to conn.send
    writes,          \* the byte strings handed to conn.send, in order
    shorted,         \* a conn.send accepted fewer bytes than it was handed
    wire,            \* the bytes in flight to the receiving end
    sent,            \* every byte the connection accepted, in order
    closed,          \* the sending end closed the connection
    r_pc,            \* recv: "idle", "header", "payload", "returned", "raised"
    r_len_msg,       \* recv: len_msg
    r_length,        \* recv: length
    r_data,          \* recv: data
    r_last,          \* recv: the byte count of the last conn.recv return, -1 before any
    r_taken,         \* the number of bytes recv took from the connection
    r_result,        \* recv: the value returned
    r_err,           \* recv: the exception raised
    r_decrypted,     \* recv called cipher.decrypt
    r_loaded,        \* recv called loads
    s_frames,        \* len_msg and data of each call of send that returned, in order
    r_frames,        \* data, r_taken and outcome of each call of recv that is over
    cipher_key_arg,  \* Server.__init__: the argument cipher_key, NoKey for None
    cipher_key,      \* Server.cipher_key, the key of Server.cipher
    active,          \* Server.active
    server,          \* Server.server, the listening socket: "bound", "listening", "closed"
    clients,         \* Server.clients: the Clients (each named by its connection) in order
    connected,       \* the number of connections remote peers have made
    accepted,        \* the number of connections accept has returned
    st_pc,           \* Server.start: "idle", "test", "accept", "client", "append",
                     \*   "thread", "returned", "raised", "killed"
    st_conn,         \* Server.start: conn of the current pass of the loop
    q_pc,            \* Server.quit: "idle", "close", "loop", "force", "returned", "crashed"
    q_force,         \* Server.quit: force
    q_i,             \* Server.quit: the index of the for loop in clients
    c_made,          \* per connection: the number of Client objects made for it
    c_active,        \* per connection: Client.active
    c_cipher,        \* per connection: the key of Client.cipher
    threads,         \* per connection: the number of threads started on Client.start
    w_pc,            \* per connection, its worker: "none", "start_func", "header",
                     \*   "payload", "returned", "raised", "killed"
    w_err,           \* the exception that ended the worker
    w_len_msg,       \* the worker's recv: len_msg
    w_data,          \* the worker's recv: data
    w_recvs,         \* the number of calls of recv the worker's start_func has made
    w_obj,           \* the worker's send: obj, None before it
    c_wrote,         \* the remote peer has written to the connection
    c_in,            \* the bytes in flight from the remote peer
    c_out            \* the bytes the connection accepted from the worker

s_vars == << s_pc, s_obj, s_err, s_data, s_len_msg, s_packets, writes, shorted >>
r_vars == << r_pc, r_len_msg, r_length, r_data, r_last, r_taken, r_result, r_err,
             r_decrypted, r_loaded >>
f_vars == << s_frames, r_frames >>
\* the channel of one connection
ch_vars == << peer, s_key, r_key, s_vars, wire, sent, closed, r_vars, f_vars >>
\* Server, its two threads
sv_vars == << cipher_key_arg, cipher_key, active, server, clients, connected, accepted,
              st_pc, st_conn, q_pc, q_force, q_i >>
\* the Clients and their workers
cl_vars == << c_made, c_active, c_cipher, threads, w_pc, w_err, w_len_msg, w_data,
              w_recvs, w_obj, c_wrote, c_in, c_out >>
vars == << ch_vars, sv_vars, cl_vars >>

\* the connections a server gets
MaxConns == 2
Conns == 1..MaxConns

\* cipher_key = None
NoKey == 0

\* no server in the picture
NoServer ==
    /\ cipher_key_arg = NoKey
    /\ cipher_key = 1
    /\ active = TRUE
    /\ server = "bound"
    /\ clients = <<>>
    /\ connected = 0
    /\ accepted = 0
    /\ st_pc = "idle"
    /\ st_conn = 0
    /\ q_pc = "idle"
    /\ q_force = FALSE
    /\ q_i = 0

\* no Client made yet
NoClients ==
    /\ c_made = [c \in Conns |-> 0]
    /\ c_active = [c \in Conns |-> FALSE]
    /\ c_cipher = [c \in Conns |-> NoKey]
    /\ threads = [c \in Conns |-> 0]
    /\ w_pc = [c \in Conns |-> "none"]
    /\ w_err = [c \in Conns |-> ""]
    /\ w_len_msg = [c \in Conns |-> <<>>]
    /\ w_data = [c \in Conns |-> <<>>]
    /\ w_recvs = [c \in Conns |-> 0]
    /\ w_obj = [c \in Conns |-> None]
    /\ c_wrote = [c \in Conns |-> FALSE]
    /\ c_in = [c \in Conns |-> <<>>]
    /\ c_out = [c \in Conns |-> <<>>]

\* neither end has called send or recv
ChannelIdle ==
    /\ s_pc = "idle"
    /\ s_obj = None
    /\ s_err = ""
    /\ s_data = <<>>
    /\ s_len_msg = <<>>
    /\ s_packets = <<>>
    /\ writes = <<>>
    /\ shorted = FALSE
    /\ wire = <<>>
    /\ sent = <<>>
    /\ closed = FALSE
    /\ r_pc = "idle"
    /\ r_len_msg = <<>>
    /\ r_length = 0
    /\ r_data = <<>>
    /\ r_last = -1
    /\ r_taken = 0
    /\ r_result = None
    /\ r_err = ""
    /\ r_decrypted = FALSE
    /\ r_loaded = FALSE
    /\ s_frames = <<>>
    /\ r_frames = <<>>

Init ==
    /\ peer \in {"client", "raw"}
    /\ s_key \in Keys
    /\ r_key \in Keys
    /\ ChannelIdle
    /\ NoServer
    /\ NoClients

(***************************************************************************)
(* The connection                                                          *)
(***************************************************************************)
\* conn.send(buf) returns the number of bytes it accepted: all of buf, or,
\* once in a run, a non-empty part of it
Accepted(buf) ==
    {Len(buf)} \cup (IF shorted THEN {} ELSE {n \in 1..Len(buf) : n < Len(buf)})

\* conn.recv(n): between 1 and n of the bytes in flight; b"" once the sending
\* end has closed and nothing is in flight; no return (blocked) otherwise
Received(n) ==
    IF wire # <<>> THEN {Take(wire, k) : k \in 1..Min(n, Len(wire))}
    ELSE IF closed THEN { <<>> }
    ELSE {}

(***************************************************************************)
(* Client.send                                                             *)
(***************************************************************************)
\* lines 80-87: encode, encrypt, build the header and the packets
SendCall(obj, iv) ==
    /\ peer = "client" /\ s_pc = "idle" /\ ~closed
    /\ s_obj' = obj
    /\ LET d == dumps(obj)
       IN  IF ~d.ok
           THEN /\ s_pc' = "raised"
                /\ s_err' = d.err
                /\ UNCHANGED << s_data, s_len_msg, s_packets >>
           ELSE LET data == encrypt(s_key, iv, d.v)
                IN  /\ s_pc' = "header"
                    /\ s_data' = data
                    /\ s_len_msg' = LenMsg(data)
                    /\ s_packets' = Packets(data)
                    /\ s_err' = ""
    /\ UNCHANGED << peer, s_key, r_key, writes, shorted, wire, sent, closed, r_vars >>
    /\ UNCHANGED << f_vars, sv_vars, cl_vars >>

\* line 89: self.conn.send(len_msg)
SendHeader ==
    /\ s_pc = "header" /\ ~closed
    /\ \E n \in Accepted(s_len_msg) :
          /\ writes' = Append(writes, s_len_msg)
          /\ wire' = wire \o Take(s_len_msg, n)
          /\ sent' = sent \o Take(s_len_msg, n)
          /\ shorted' = (shorted \/ n < Len(s_len_msg))
    /\ s_pc' = IF s_packets = <<>> THEN "returned" ELSE "packets"
    /\ UNCHANGED << peer, s_key, r_key, s_obj, s_err, s_data, s_len_msg, s_packets,
                    closed, r_vars >>
    /\ UNCHANGED << f_vars, sv_vars, cl_vars >>

\* lines 90-91: self.conn.send(packet) for the next packet
SendPacket ==
    /\ s_pc = "packets" /\ ~closed
    /\ LET packet == Head(s_packets)
       IN  \E n \in Accepted(packet) :
              /\ writes' = Append(writes, packet)
              /\ wire' = wire \o Take(packet, n)
              /\ sent' = sent \o Take(packet, n)
              /\ shorted' = (shorted \/ n < Len(packet))
    /\ s_packets' = Tail(s_packets)
    /\ s_pc' = IF Tail(s_packets) = <<>> THEN "returned" ELSE "packets"
    /\ UNCHANGED << peer, s_key, r_key, s_obj, s_err, s_data, s_len_msg, closed,
                    r_vars >>
    /\ UNCHANGED << f_vars, sv_vars, cl_vars >>

(***************************************************************************)
(* The sending end otherwise                                               *)
(***************************************************************************)
\* a foreign peer writes one byte
RawWrite(b) ==
    /\ peer = "raw" /\ ~closed /\ Len(sent) < MaxRaw
    /\ wire' = Append(wire, b)
    /\ sent' = Append(sent, b)
    /\ UNCHANGED << peer, s_key, r_key, s_vars, closed, r_vars >>
    /\ UNCHANGED << f_vars, sv_vars, cl_vars >>

\* the sending end closes the connection: between calls of send, or at any
\* point of a foreign peer's writing
PeerClose ==
    /\ ~closed
    /\ peer = "raw" \/ s_pc \in {"idle", "returned", "raised"}
    /\ closed' = TRUE
    /\ UNCHANGED << peer, s_key, r_key, s_vars, wire, sent, r_vars >>
    /\ UNCHANGED << f_vars, sv_vars, cl_vars >>

(***************************************************************************)
(* Client.recv                                                             *)
(***************************************************************************)
\* line 104 with the cipher's exception swallowed: loads runs whatever decrypt said
Line104Unchecked(data) ==
    LET d == decrypt(r_key, data)
    IN  [pc |-> "returned", err |-> "", result |-> loads(d.v), loaded |-> TRUE]

\* line 104: loads(self.cipher.decrypt(data))
Line104(data) ==
    LET d == decrypt(r_key, data)
    IN  IF ~d.ok
        THEN [pc |-> "raised", err |-> d.err, result |-> None, loaded |-> FALSE]
        ELSE [pc |-> "returned", err |-> "", result |-> loads(d.v), loaded |-> TRUE]

\* lines 98-104 once len_msg is complete, and lines 100-104 after each read of
\* the payload loop: where recv goes with len_msg, length and data as given
AfterRead(length, data) ==
    IF Len(data) < length
    THEN /\ r_pc' = "payload"
         /\ UNCHANGED << r_result, r_err, r_decrypted, r_loaded >>
    ELSE LET o == Line104(data)
         IN  /\ r_pc' = o.pc
             /\ r_err' = o.err
             /\ r_result' = o.result
             /\ r_decrypted' = TRUE
             /\ r_loaded' = o.loaded

\* line 94
RecvCall ==
    /\ r_pc = "idle"
    /\ r_pc' = "header"
    /\ r_len_msg' = <<>>
    /\ UNCHANGED << peer, s_key, r_key, s_vars, wire, sent, closed, r_length, r_data,
                    r_last, r_taken, r_result, r_err, r_decrypted, r_loaded >>
    /\ UNCHANGED << f_vars, sv_vars, cl_vars >>

\* lines 95-96, one pass of the header loop; with len_msg complete, lines 98-99
\* and the first test of the payload loop
RecvHeader ==
    /\ r_pc = "header"
    /\ \E got \in Received(HeaderRequest(r_len_msg)) :
          LET len_msg == r_len_msg \o got
          IN  /\ r_len_msg' = len_msg
              /\ wire' = Drop(wire, Len(got))
              /\ r_last' = Len(got)
              /\ r_taken' = r_taken + Len(got)
              /\ IF Len(len_msg) < header
                 THEN UNCHANGED << r_pc, r_length, r_data, r_result, r_err,
                                   r_decrypted, r_loaded >>
                 ELSE LET p == int(len_msg)
                      IN  IF ~p.ok
                          THEN /\ r_pc' = "raised"
                               /\ r_err' = p.err
                               /\ UNCHANGED << r_length, r_data, r_result,
                                               r_decrypted, r_loaded >>
                          ELSE /\ r_length' = p.v
                               /\ r_data' = <<>>
                               /\ AfterRead(p.v, <<>>)
    /\ UNCHANGED << peer, s_key, r_key, s_vars, sent, closed >>
    /\ UNCHANGED << f_vars, sv_vars, cl_vars >>

\* lines 100-102, one pass of the payload loop; with data complete, line 104
RecvPayload ==
    /\ r_pc = "payload"
    /\ \E got \in Received(PayloadRequest(r_length, r_data)) :
          LET data == r_data \o got
          IN  /\ r_data' = data
              /\ wire' = Drop(wire, Len(got))
              /\ r_last' = Len(got)
              /\ r_taken' = r_taken + Len(got)
              /\ AfterRead(r_length, data)
    /\ UNCHANGED << peer, s_key, r_key, s_vars, sent, closed, r_len_msg, r_length >>
    /\ UNCHANGED << f_vars, sv_vars, cl_vars >>

Next ==
    \/ \E obj \in Values, iv \in IVs : SendCall(obj, iv)
    \/ SendHeader
    \/ SendPacket
    \/ \E b \in RawBytes : RawWrite(b)
    \/ PeerClose
    \/ RecvCall
    \/ RecvHeader
    \/ RecvPayload

Spec == Init /\ [][Next]_vars

(***************************************************************************)
(* Many frames on one connection: the caller of send calls it again, the   *)
(* caller of recv calls it again                                           *)
(***************************************************************************)
\* the number of frames one end sends
MaxFrames == 2

\* the values sent: encodings of 2 and of 5 bytes, and one dumps raises on
StreamValues == { PyBool(TRUE), PyList(<<>>), PySet(<<>>) }

StreamInit ==
    /\ Init
    /\ peer = "client"

\* send is over (lines 89-91 done, or dumps raised): the caller has the
\* control again
SendReturn ==
    /\ s_pc \in {"returned", "raised"}
    /\ s_pc = "raised" \/ Len(s_frames) + 1 < MaxFrames
    /\ s_pc' = "idle"
    /\ s_frames' = IF s_pc = "returned"
                   THEN Append(s_frames, [len_msg |-> s_len_msg, data |-> s_data])
                   ELSE s_frames
    /\ writes' = <<>>
    /\ UNCHANGED << peer, s_key, r_key, s_obj, s_err, s_data, s_len_msg, s_packets,
                    shorted, wire, sent, closed, r_vars, r_frames, sv_vars, cl_vars >>

\* recv is over after line 104 (it returned, or the cipher raised): the
\* caller has the control again
RecvReturn ==
    /\ r_pc \in {"returned", "raised"} /\ r_decrypted
    /\ Len(r_frames) < MaxFrames
    /\ r_frames' = Append(r_frames, [data |-> r_data, taken |-> r_taken, pc |-> r_pc])
    /\ r_pc' = "idle"
    /\ r_len_msg' = <<>>
    /\ r_length' = 0
    /\ r_data' = <<>>
    /\ r_last' = -1
    /\ r_result' = None
    /\ r_err' = ""
    /\ r_decrypted' = FALSE
    /\ r_loaded' = FALSE
    /\ UNCHANGED << peer, s_key, r_key, s_vars, wire, sent, closed, r_taken, s_frames,
                    sv_vars, cl_vars >>

StreamNext ==
    \/ \E obj \in StreamValues, iv \in IVs : SendCall(obj, iv)
    \/ SendHeader
    \/ SendPacket
    \/ SendReturn
    \/ RecvCall
    \/ RecvHeader
    \/ RecvPayload
    \/ RecvReturn

SpecStream == StreamInit /\ [][StreamNext]_vars

(***************************************************************************)
(* Server: __init__, the accept loop of start, quit                        *)
(***************************************************************************)
\* line 137 with the generation left out: the argument as it is
ServerCipherKeyAsGiven(arg, generated) == arg

\* line 137: cipher_key if cipher_key is not None else Fernet.generate_key()
ServerCipherKey(arg, generated) == IF arg # NoKey THEN arg ELSE generated

\* the state after Server(ip, port, client_start, cipher_key)
ServerInit ==
    /\ peer = "client" /\ s_key = 1 /\ r_key = 1
    /\ ChannelIdle
    /\ cipher_key_arg \in {NoKey} \cup Keys
    /\ \E generated \in Keys : cipher_key = ServerCipherKey(cipher_key_arg, generated)
    /\ active = TRUE
    /\ server = "bound"
    /\ clients = <<>>
    /\ connected = 0
    /\ accepted = 0
    /\ st_pc = "idle"
    /\ st_conn = 0
    /\ q_pc = "idle"
    /\ q_force = FALSE
    /\ q_i = 0
    /\ NoClients

\* line 148: self.server.listen(); OSError on a closed socket
Start ==
    /\ st_pc = "idle"
    /\ IF server = "closed"
       THEN st_pc' = "raised" /\ UNCHANGED server
       ELSE st_pc' = "test" /\ server' = "listening"
    /\ UNCHANGED << ch_vars, cipher_key_arg, cipher_key, active, clients, connected,
                    accepted, st_conn, q_pc, q_force, q_i, cl_vars >>

\* a remote peer connects to the listening socket
Connect ==
    /\ server = "listening"
    /\ connected < MaxConns
    /\ connected' = connected + 1
    /\ UNCHANGED << ch_vars, cipher_key_arg, cipher_key, active, server, clients,
                    accepted, st_pc, st_conn, q_pc, q_force, q_i, cl_vars >>

\* line 152, the test, and line 153, the call of accept: OSError on a closed socket
LoopTest ==
    /\ st_pc = "test"
    /\ st_pc' = IF ~active THEN "returned"
                ELSE IF server = "closed" THEN "raised"
                ELSE "accept"
    /\ UNCHANGED << ch_vars, cipher_key_arg, cipher_key, active, server, clients,
                    connected, accepted, st_conn, q_pc, q_force, q_i, cl_vars >>

\* line 153: accept returns the next connection made; a call that began
\* before the socket was closed may still return one
AcceptReturn ==
    /\ st_pc = "accept"
    /\ accepted < connected
    /\ accepted' = accepted + 1
    /\ st_conn' = accepted + 1
    /\ st_pc' = "client"
    /\ UNCHANGED << ch_vars, cipher_key_arg, cipher_key, active, server, clients,
                    connected, q_pc, q_force, q_i, cl_vars >>

\* line 153: accept raises OSError, the socket closed under it
AcceptRaise ==
    /\ st_pc = "accept"
    /\ server = "closed"
    /\ st_pc' = "raised"
    /\ UNCHANGED << ch_vars, cipher_key_arg, cipher_key, active, server, clients,
                    connected, accepted, st_conn, q_pc, q_force, q_i, cl_vars >>

\* line 154: Client(conn, addr, self.client_start, self.verbose, self.cipher)
MakeClient ==
    /\ st_pc = "client"
    /\ c_made' = [c_made EXCEPT ![st_conn] = @ + 1]
    /\ c_active' = [c_active EXCEPT ![st_conn] = TRUE]
    /\ c_cipher' = [c_cipher EXCEPT ![st_conn] = cipher_key]
    /\ st_pc' = "append"
    /\ UNCHANGED << ch_vars, cipher_key_arg, cipher_key, active, server, clients,
                    connected, accepted, st_conn, q_pc, q_force, q_i, threads, w_pc,
                    w_err, w_len_msg, w_data, w_recvs, w_obj, c_wrote, c_in, c_out >>

\* line 155 left out: the roster as it is
AppendSkipped(roster, client) == roster

\* line 155: self.clients.append(client)
AppendClient(roster, client) == Append(roster, client)

\* line 155
RosterAppend ==
    /\ st_pc = "append"
    /\ clients' = AppendClient(clients, st_conn)
    /\ st_pc' = "thread"
    /\ UNCHANGED << ch_vars, cipher_key_arg, cipher_key, active, server, connected,
                    accepted, st_conn, q_pc, q_force, q_i, cl_vars >>

\* line 156: threading.Thread(target=client.start).start()
StartThread ==
    /\ st_pc = "thread"
    /\ threads' = [threads EXCEPT ![st_conn] = @ + 1]
    /\ w_pc' = [w_pc EXCEPT ![st_conn] = "start_func"]
    /\ st_pc' = "test"
    /\ UNCHANGED << ch_vars, cipher_key_arg, cipher_key, active, server, clients,
                    connected, accepted, st_conn, q_pc, q_force, q_i, c_made, c_active,
                    c_cipher, w_err, w_len_msg, w_data, w_recvs, w_obj, c_wrote, c_in,
                    c_out >>

\* line 163, on the thread that calls quit
Quit(force) ==
    /\ q_pc = "idle"
    /\ q_force' = force
    /\ active' = FALSE
    /\ q_pc' = "close"
    /\ UNCHANGED << ch_vars, cipher_key_arg, cipher_key, server, clients, connected,
                    accepted, st_pc, st_conn, q_i, cl_vars >>

\* line 164: self.server.close()
QuitClose ==
    /\ q_pc = "close"
    /\ server' = "closed"
    /\ q_i' = 1
    /\ q_pc' = "loop"
    /\ UNCHANGED << ch_vars, cipher_key_arg, cipher_key, active, clients, connected,
                    accepted, st_pc, st_conn, q_force, cl_vars >>

\* a quit that clears the flag of every Client
ClientQuitAll(flags, c) == [d \in Conns |-> FALSE]

\* lines 72-77, Client.quit
ClientQuitFlag(flags, c) == [flags EXCEPT ![c] = FALSE]

\* lines 165-166, one pass of the for loop over the list as it is now, then
\* line 168, the test of force
QuitLoop ==
    /\ q_pc = "loop"
    /\ IF q_i <= Len(clients)
       THEN /\ c_active' = ClientQuitFlag(c_active, clients[q_i])
            /\ q_i' = q_i + 1
            /\ UNCHANGED q_pc
       ELSE /\ q_pc' = IF q_force THEN "force" ELSE "returned"
            /\ UNCHANGED << c_active, q_i >>
    /\ UNCHANGED << ch_vars, cipher_key_arg, cipher_key, active, server, clients,
                    connected, accepted, st_pc, st_conn, q_force, c_made, c_cipher,
                    threads, w_pc, w_err, w_len_msg, w_data, w_recvs, w_obj, c_wrote,
                    c_in, c_out >>

\* line 169: the read of address 5.  The process dies of it, every thread with
\* it and every socket closed; or the read returns and quit does
ForceRead ==
    /\ q_pc = "force"
    /\ \/ /\ q_pc' = "crashed"
          /\ st_pc' = IF st_pc = "idle" THEN "idle" ELSE "killed"
          /\ w_pc' = [c \in Conns |-> IF w_pc[c] = "none" THEN "none" ELSE "killed"]
          /\ server' = "closed"
       \/ /\ q_pc' = "returned"
          /\ UNCHANGED << st_pc, w_pc, server >>
    /\ UNCHANGED << ch_vars, cipher_key_arg, cipher_key, active, clients, connected,
                    accepted, st_conn, q_force, q_i, c_made, c_active, c_cipher, threads,
                    w_err, w_len_msg, w_data, w_recvs, w_obj, c_wrote, c_in, c_out >>

(***************************************************************************)
(* The workers: Client.start runs start_func, the caller's function, which *)
(* calls recv and send of its Client and returns                           *)
(***************************************************************************)
\* the calls of recv one start_func makes
MaxRecvs == 1

\* the values a start_func sends: one dumps encodes, one it raises on
WorkerValues == { PyBool(TRUE), PySet(<<>>) }

\* the nonce of the tokens made here
WorkerIV == CHOOSE iv \in IVs : TRUE

\* what a remote peer writes: a header that is no number, or the frame of True
\* under one of the keys
Scripts ==
    { << 120, SP >> } \cup
    { LenMsg(encrypt(k, WorkerIV, dumps(PyBool(TRUE)).v))
        \o encrypt(k, WorkerIV, dumps(PyBool(TRUE)).v) : k \in Keys }

\* a remote peer writes to its connection, accepted yet or not
RemoteWrite(c, script) ==
    /\ c <= connected /\ ~c_wrote[c]
    /\ q_pc # "crashed"
    /\ c_wrote' = [c_wrote EXCEPT ![c] = TRUE]
    /\ c_in' = [c_in EXCEPT ![c] = script]
    /\ UNCHANGED << ch_vars, sv_vars, c_made, c_active, c_cipher, threads, w_pc, w_err,
                    w_len_msg, w_data, w_recvs, w_obj, c_out >>

\* conn.recv(n) on a worker's connection: the bytes in flight, n at most; no
\* return (blocked) when there is none.  What the remote peer wrote has all
\* arrived; the splits of a stream into shorter reads are those of Received
Arrived(buf, n) == IF buf = <<>> THEN {} ELSE { Take(buf, Min(n, Len(buf))) }

\* an exception that leaves every thread of the process
UncaughtAll(c) == [d \in Conns |-> IF w_pc[d] = "none" THEN "none" ELSE "raised"]

\* an exception start_func does not catch leaves Client.start: the thread of
\* this worker ends, no other
Uncaught(c) == [w_pc EXCEPT ![c] = "raised"]

\* lines 98-104 with len_msg complete and data as read so far: recv reads on,
\* raises, or returns to start_func
RecvOutcome(key, len_msg, data) ==
    LET p == int(len_msg)
    IN  IF ~p.ok THEN [pc |-> "raised", err |-> p.err]
        ELSE IF Len(data) < p.v THEN [pc |-> "payload", err |-> ""]
        ELSE LET d == decrypt(key, data)
             IN  IF ~d.ok THEN [pc |-> "raised", err |-> d.err]
                 ELSE [pc |-> "start_func", err |-> ""]

\* the worker goes where recv goes
WorkerGoes(c, o) ==
    IF o.pc = "raised"
    THEN w_pc' = Uncaught(c) /\ w_err' = [w_err EXCEPT ![c] = o.err]
    ELSE w_pc' = [w_pc EXCEPT ![c] = o.pc] /\ UNCHANGED w_err

\* line 94, start_func calling self.recv()
WorkerRecvCall(c) ==
    /\ w_pc[c] = "start_func"
    /\ w_recvs[c] < MaxRecvs
    /\ w_recvs' = [w_recvs EXCEPT ![c] = @ + 1]
    /\ w_len_msg' = [w_len_msg EXCEPT ![c] = <<>>]
    /\ w_data' = [w_data EXCEPT ![c] = <<>>]
    /\ w_pc' = [w_pc EXCEPT ![c] = "header"]
    /\ UNCHANGED << ch_vars, sv_vars, c_made, c_active, c_cipher, threads, w_err, w_obj,
                    c_wrote, c_in, c_out >>

\* lines 95-96, one pass of the header loop; with len_msg complete, lines 98-99
\* and the first test of the payload loop
WorkerRecvHeader(c) ==
    /\ w_pc[c] = "header"
    /\ \E got \in Arrived(c_in[c], HeaderRequest(w_len_msg[c])) :
          LET len_msg == w_len_msg[c] \o got
          IN  /\ w_len_msg' = [w_len_msg EXCEPT ![c] = len_msg]
              /\ c_in' = [c_in EXCEPT ![c] = Drop(@, Len(got))]
              /\ IF Len(len_msg) < header
                 THEN UNCHANGED << w_pc, w_err >>
                 ELSE WorkerGoes(c, RecvOutcome(c_cipher[c], len_msg, <<>>))
    /\ UNCHANGED << ch_vars, sv_vars, c_made, c_active, c_cipher, threads, w_data,
                    w_recvs, w_obj, c_wrote, c_out >>

\* lines 100-102, one pass of the payload loop; with data complete, line 104
WorkerRecvPayload(c) ==
    /\ w_pc[c] = "payload"
    /\ \E got \in Arrived(c_in[c], PayloadRequest(int(w_len_msg[c]).v, w_data[c])) :
          LET data == w_data[c] \o got
          IN  /\ w_data' = [w_data EXCEPT ![c] = data]
              /\ c_in' = [c_in EXCEPT ![c] = Drop(@, Len(got))]
              /\ WorkerGoes(c, RecvOutcome(c_cipher[c], w_len_msg[c], data))
    /\ UNCHANGED << ch_vars, sv_vars, c_made, c_active, c_cipher, threads, w_len_msg,
                    w_recvs, w_obj, c_wrote, c_out >>

RECURSIVE SendEach(_)
\* lines 90-91 on a connection that accepts all it is handed
SendEach(packets) ==
    IF packets = <<>> THEN <<>> ELSE Head(packets) \o SendEach(Tail(packets))

\* lines 80-91, start_func calling self.send(obj): AttributeError without a
\* cipher, the error of dumps, or header and packets written
WorkerSend(c, obj) ==
    /\ w_pc[c] = "start_func"
    /\ w_obj[c] = None
    /\ w_obj' = [w_obj EXCEPT ![c] = obj]
    /\ IF c_cipher[c] = NoKey
       THEN /\ w_pc' = Uncaught(c)
            /\ w_err' = [w_err EXCEPT ![c] = "AttributeError"]
            /\ UNCHANGED c_out
       ELSE LET d == dumps(obj)
            IN  IF ~d.ok
                THEN /\ w_pc' = Uncaught(c)
                     /\ w_err' = [w_err EXCEPT ![c] = d.err]
                     /\ UNCHANGED c_out
                ELSE LET data == encrypt(c_cipher[c], WorkerIV, d.v)
                     IN  /\ c_out' = [c_out EXCEPT
                                        ![c] = @ \o LenMsg(data) \o SendEach(Packets(data))]
                         /\ UNCHANGED << w_pc, w_err >>
    /\ UNCHANGED << ch_vars, sv_vars, c_made, c_active, c_cipher, threads, w_len_msg,
                    w_data, w_recvs, c_wrote, c_in >>

\* start_func returns, and Client.start with it
WorkerReturn(c) ==
    /\ w_pc[c] = "start_func"
    /\ w_pc' = [w_pc EXCEPT ![c] = "returned"]
    /\ UNCHANGED << ch_vars, sv_vars, c_made, c_active, c_cipher, threads, w_err,
                    w_len_msg, w_data, w_recvs, w_obj, c_wrote, c_in, c_out >>

ServerNext ==
    \/ Start
    \/ Connect
    \/ LoopTest
    \/ AcceptReturn
    \/ AcceptRaise
    \/ MakeClient
    \/ RosterAppend
    \/ StartThread
    \/ \E force \in BOOLEAN : Quit(force)
    \/ QuitClose
    \/ QuitLoop
    \/ ForceRead
    \/ \E c \in Conns, script \in Scripts : RemoteWrite(c, script)
    \/ \E c \in Conns : WorkerRecvCall(c)
    \/ \E c \in Conns : WorkerRecvHeader(c)
    \/ \E c \in Conns : WorkerRecvPayload(c)
    \/ \E c \in Conns, obj \in WorkerValues : WorkerSend(c, obj)
    \/ \E c \in Conns : WorkerReturn(c)

SpecServer == ServerInit /\ [][ServerNext]_vars

(***************************************************************************)
(* Properties                                                              *)
(***************************************************************************)
RECURSIVE Concat(_)
\* the byte strings of ss, joined in order
Concat(ss) == IF ss = <<>> THEN <<>> ELSE Head(ss) \o Concat(Tail(ss))

\* the decimal representation of len(data) has at most header characters
Fits(data) == Len(str(Len(data))) <= header

\* send ran lines 80-87 without raising
SendStarted == s_pc \in {"header", "packets", "returned"}

\* recv is over: it returned or raised
RecvOver == r_pc \in {"returned", "raised"}

\* send returned and the connection carries one whole frame whose header
\* states the payload's length
FrameOnStream ==
    /\ peer = "client" /\ s_pc = "returned"
    /\ ~shorted /\ Fits(s_data)

\* C1: frame round trip.  When send(v) has put its frame on a reliable
\* connection and recv on the other end, under the same key, is over, recv
\* returned a value equal to v.
FrameRoundTrip ==
    (FrameOnStream /\ s_key = r_key /\ RecvOver)
        => (r_pc = "returned" /\ r_result = s_obj)

\* C2: codec round trip.  For the value v handed to send, when dumps encodes it,
\* loads(dumps(v)) is the pair of v and len(dumps(v)).
CodecRoundTrip ==
    LET d == dumps(s_obj)
    IN  (s_pc # "idle" /\ d.ok) => loads(d.v) = PyTuple(<< s_obj, PyInt(Len(d.v)) >>)

\* C3: receive reassembly.  Whatever the split of the stream into reads, recv
\* takes the first header bytes of the stream as len_msg; when they state a
\* length >= 0 it takes after them only payload bytes, in stream order and never
\* more than that length, and it leaves the payload loop (calls the cipher) only
\* with exactly that many: header + length bytes taken in all.
RecvReassembly ==
    /\ Len(r_len_msg) <= header
    /\ r_len_msg = Take(sent, Len(r_len_msg))
    /\ r_taken = Len(r_len_msg) + Len(r_data)
    /\ (r_pc \in {"idle", "header"}) => r_data = <<>>
    /\ (r_pc \in {"payload", "returned", "raised"}) => Len(r_len_msg) = header
    /\ LET p == int(Take(sent, header))
       IN  (Len(r_len_msg) = header /\ p.ok /\ p.v >= 0) =>
              /\ r_pc \in {"payload", "returned", "raised"}
              /\ r_length = p.v
              /\ Len(r_data) <= p.v
              /\ r_data = SubSeq(sent, header + 1, header + Len(r_data))
              /\ (r_pc = "payload") = (Len(r_data) < p.v)
              /\ r_decrypted = (Len(r_data) = p.v)
              /\ r_decrypted => r_taken = header + p.v

\* C3 witness: recv left the payload loop with a payload longer than one
\* packet, header and payload each taken in several reads, the last of one byte
RecvReassemblyWitness ==
    /\ FrameOnStream /\ r_decrypted
    /\ r_length > packet_size
    /\ Len(r_data) = r_length
    /\ r_last = 1

\* C4: header format.  When the decimal representation of len(payload) fits
\* the header, len_msg is header bytes long: the decimal digits of
\* len(payload), without a leading zero, then only spaces; int(len_msg) is
\* len(payload); and it is the first byte string handed to the connection.
HeaderFormat ==
    (SendStarted /\ Fits(s_data)) =>
        /\ Len(s_len_msg) = header
        /\ \E k \in 1..header :
              /\ \A i \in 1..k : IsDigit(s_len_msg[i])
              /\ \A i \in (k + 1)..header : s_len_msg[i] = SP
              /\ (k > 1) => s_len_msg[1] # DIGIT0
        /\ int(s_len_msg) = Ok(Len(s_data))
        /\ (writes # <<>>) => writes[1] = s_len_msg

\* C4 witness: a header with padding was written, and send returned
HeaderFormatWitness ==
    /\ s_pc = "returned" /\ Fits(s_data)
    /\ Len(str(Len(s_data))) < header
    /\ writes[1] = s_len_msg

\* C5: chunking and ordering.  Nothing is written before lines 80-87 are done;
\* the first write is the header; every later write is a chunk of 1 to
\* packet_size bytes, each but the last of the payload exactly packet_size; the
\* chunks written so far are the payload's next bytes in order, and all of the
\* payload once send returns; an empty payload splits into no chunk.
Chunking ==
    /\ (s_pc \in {"idle", "header", "raised"}) => writes = <<>>
    /\ (writes # <<>>) =>
          /\ writes[1] = s_len_msg
          /\ \A i \in 2..Len(writes) :
                /\ Len(writes[i]) >= 1
                /\ Len(writes[i]) <= packet_size
                /\ (i < Len(writes) \/ s_pc = "packets") => Len(writes[i]) = packet_size
          /\ Concat(Tail(writes)) = Take(s_data, Len(Concat(Tail(writes))))
          /\ (s_pc = "returned") => Concat(Tail(writes)) = s_data
    /\ Packets(<<>>) = <<>>

\* C5 witness: send returned after several chunks, the last a short one
ChunkingWitness ==
    /\ s_pc = "returned"
    /\ Len(writes) >= 3
    /\ Len(writes[Len(writes)]) < packet_size

\* C6: complete writes.  When send has returned, the bytes the connection
\* accepted are the header followed by the payload, also when conn.send may
\* accept fewer bytes than it is handed.
CompleteWrites ==
    (s_pc = "returned") => sent = s_len_msg \o s_data

\* C7: closed connection.  Once a read of recv has met the end of the stream
\* (conn.recv returned no byte), recv has raised ConnectionClosed: it is not
\* in its loops any more.
ClosedConnectionRaises ==
    (r_last = 0) => (r_pc = "raised" /\ r_err = "ConnectionClosed")

\* C8: header overflow.  send does not get past lines 80-87 with a payload
\* whose length does not fit the header (it raises HeaderOverflow, nothing
\* written), and a header it has written states the payload's length.
HeaderOverflowRejected ==
    /\ SendStarted => Fits(s_data)
    /\ (~SendStarted) => writes = <<>>
    /\ (writes # <<>>) => int(writes[1]) = Ok(Len(s_data))

\* C9: malformed header.  When the header bytes recv has read are not the
\* decimal representation of an integer >= 0, recv raised on parsing them (the
\* ValueError of int): no payload byte taken, cipher and decoder not called.
MalformedHeaderRejected ==
    LET p == int(r_len_msg)
    IN  (r_pc \in {"payload", "returned", "raised"} /\ (~p.ok \/ p.v < 0)) =>
           /\ r_pc = "raised" /\ r_err = "ValueError"
           /\ r_taken = header
           /\ ~r_decrypted /\ ~r_loaded

\* C10: mismatched keys.  When recv is over for a whole frame sent under
\* another key than its own, it raised the cipher's InvalidToken and returned
\* nothing; and loads is only ever called on data that decrypts under recv's key.
MismatchedKeys ==
    /\ (FrameOnStream /\ s_key # r_key /\ RecvOver) =>
          (r_pc = "raised" /\ r_err = "InvalidToken" /\ ~r_loaded /\ r_result = None)
    /\ r_loaded => (r_decrypted /\ decrypt(r_key, r_data).ok)

\* C10 witness: recv raised InvalidToken on a whole frame sent under another key
MismatchedKeysWitness ==
    /\ FrameOnStream /\ s_key # r_key
    /\ r_pc = "raised" /\ r_err = "InvalidToken"
    /\ r_data = s_data

\* the four little-endian bytes of n, 0 <= n < 2^16
LE4(n) == << n % 256, n \div 256, 0, 0 >>

\* C12: text length prefix.  For the text v handed to send, dumps(v) is the
\* tag 3, then the number of UTF-8 bytes of v as four little-endian bytes, then
\* exactly these bytes.
TextLengthPrefix ==
    (s_pc # "idle" /\ s_obj.t = "str") =>
        LET d == dumps(s_obj)
            b == encode(s_obj.s)
        IN  /\ d.ok
            /\ Len(d.v) = 5 + Len(b)
            /\ d.v[1] = 3
            /\ SubSeq(d.v, 2, 5) = LE4(Len(b))
            /\ SubSeq(d.v, 6, Len(d.v)) = b

\* C13: integer range.  For the integer v = hi * 65536 + lo handed to send:
\* when v is in the signed 32-bit range, dumps(v) is the tag 1 and the four
\* little-endian bytes of v (two's complement); when v does not fit in four
\* bytes, dumps fails; dumps never returns the bytes of another integer.
IntegerRange ==
    (s_pc # "idle" /\ s_obj.t = "int") =>
        LET d == dumps(s_obj)
            hi == s_obj.i[1]
            lo == s_obj.i[2]
            bytes == << lo % 256, lo \div 256, (hi % 65536) % 256, (hi % 65536) \div 256 >>
        IN  /\ (hi >= -32768 /\ hi < 32768) => (d.ok /\ d.v = <<1>> \o bytes)
            /\ (hi < -32768 \/ hi >= 65536) => ~d.ok
            /\ d.ok => d.v = <<1>> \o bytes

\* the tag table
Tag(v) ==
    CASE v.t = "bool" -> 0
      [] v.t = "int" -> 1
      [] v.t = "float" -> 2
      [] v.t = "str" -> 3
      [] v.t = "bytes" -> 4
      [] v.t = "tuple" -> 5
      [] v.t = "list" -> 6
      [] v.t = "dict" -> 7
      [] OTHER -> -1

IsContainer(v) == v.t \in {"tuple", "list", "dict"}

RECURSIVE Flatten(_)
\* k1, v1, k2, v2, ... of a sequence of pairs
Flatten(kvs) ==
    IF kvs = <<>> THEN <<>> ELSE << Head(kvs)[1], Head(kvs)[2] >> \o Flatten(Tail(kvs))

\* the children of a container in order, each key immediately before its value
Children(v) == IF v.t = "dict" THEN Flatten(v.kvs) ELSE v.xs

\* the number of elements, or of pairs
Count(v) == IF v.t = "dict" THEN Len(v.kvs) ELSE Len(v.xs)

RECURSIVE Structured(_)
\* dumps(v), when v is encoded, starts with the tag of v; for a container the
\* count and the children's encodings follow; and the same of every child
Structured(v) ==
    LET d == dumps(v)
    IN  /\ d.ok => (Len(d.v) >= 1 /\ d.v[1] = Tag(v))
        /\ (v.t = "bool") => (d.ok /\ d.v[1] = 0)
        /\ IsContainer(v) =>
              LET cs == Children(v)
                  es == [i \in 1..Len(cs) |-> dumps(cs[i])]
              IN  /\ d.ok = (\A i \in 1..Len(cs) : es[i].ok)
                  /\ d.ok =>
                        /\ SubSeq(d.v, 2, 5) = LE4(Count(v))
                        /\ Drop(d.v, 5) = Concat([i \in 1..Len(cs) |-> es[i].v])
                        /\ Len(d.v) = 5 + Sum([i \in 1..Len(cs) |-> Len(es[i].v)])
                  /\ \A i \in 1..Len(cs) : Structured(cs[i])

\* C14: tagged structural encoding.  For the value v handed to send and every
\* value nested in it: an encoding starts with the tag of the table, a boolean
\* with 0; a tuple, list or dict is encoded when all its children are, as tag,
\* count in four little-endian bytes, then the children's encodings in order
\* (key then value), 5 bytes more than the children's encodings together.
TaggedEncoding ==
    (s_pc # "idle") => Structured(s_obj)

\* C14 witness: send returned after encoding a dict of one pair
TaggedEncodingWitness ==
    /\ s_pc = "returned"
    /\ s_obj.t = "dict" /\ Len(s_obj.kvs) = 1
    /\ dumps(s_obj).ok

\* the types of the closed variant set
Supported(v) == v.t \in {"bool", "int", "float", "str", "bytes", "tuple", "list", "dict"}

RECURSIVE Leaves(_), LeavesOf(_)
\* the values nested in v that are not tuple, list or dict, in encoding order
Leaves(v) == IF IsContainer(v) THEN LeavesOf(Children(v)) ELSE << v >>

LeavesOf(cs) == IF cs = <<>> THEN <<>> ELSE Leaves(Head(cs)) \o LeavesOf(Tail(cs))

\* a value outside the variant set is v or is nested in v
HasUnsupported(v) == \E i \in 1..Len(Leaves(v)) : ~Supported(Leaves(v)[i])

\* an integer that does not pack: outside 0..2^32-1
Unpackable(v) == v.t = "int" /\ (v.i[1] < 0 \/ v.i[1] >= 65536)

\* no integer that does not pack comes, in encoding order, before the first
\* value outside the variant set
UnsupportedFirst(v) ==
    \E i \in 1..Len(Leaves(v)) :
        /\ ~Supported(Leaves(v)[i])
        /\ \A j \in 1..(i - 1) : ~Unpackable(Leaves(v)[j])

FrameOf(f) == f.len_msg \o f.data

\* the frames of the calls of send so far that got past line 87, in call order
AllSent ==
    s_frames \o (IF SendStarted THEN << [len_msg |-> s_len_msg, data |-> s_data] >>
                                 ELSE <<>>)

\* the length of the first k frames together
Boundary(k) == Sum([j \in 1..k |-> Len(FrameOf(AllSent[j]))])

\* C19: stream integrity over many frames.  On a connection that accepts all
\* it is handed: the stream is the frames of the calls of send in call order,
\* each header stating its payload's length, the last frame as far as written;
\* the k-th call of recv that is over took the stream up to the end of the
\* k-th frame and gave the cipher the payload of the k-th send; the call in
\* progress started at the end of the frame before, has taken the next bytes
\* of the stream, none beyond the end of its frame, raises only in the cipher,
\* and gives the cipher the payload of its frame.
StreamIntegrity ==
    (~shorted) =>
        /\ sent = Concat([k \in 1..Len(s_frames) |-> FrameOf(s_frames[k])]) \o Concat(writes)
        /\ (~SendStarted) => writes = <<>>
        /\ SendStarted =>
              /\ Concat(writes) = Take(s_len_msg \o s_data, Len(Concat(writes)))
              /\ (s_pc = "returned") => Concat(writes) = s_len_msg \o s_data
        /\ \A k \in 1..Len(AllSent) :
              /\ Len(AllSent[k].len_msg) = header
              /\ int(AllSent[k].len_msg) = Ok(Len(AllSent[k].data))
        /\ Len(r_frames) <= Len(AllSent)
        /\ \A k \in 1..Len(r_frames) :
              /\ r_frames[k].taken = Boundary(k)
              /\ r_frames[k].data = AllSent[k].data
              /\ (r_frames[k].pc = "returned") = (s_key = r_key)
        /\ LET k == Len(r_frames) + 1
               start == Boundary(k - 1)
           IN  /\ r_taken = start + Len(r_len_msg) + Len(r_data)
               /\ r_len_msg \o r_data = SubSeq(sent, start + 1, r_taken)
               /\ Len(r_len_msg) <= header
               /\ (r_pc = "raised") => r_decrypted
               /\ (k <= Len(AllSent)) => r_taken <= Boundary(k)
               /\ r_decrypted =>
                     /\ k <= Len(AllSent)
                     /\ r_taken = Boundary(k)
                     /\ r_data = AllSent[k].data

\* C19 witness: two calls of recv are over, for two frames of different lengths
\* written in full
StreamIntegrityWitness ==
    /\ ~shorted
    /\ Len(r_frames) = 2
    /\ Len(r_frames[1].data) # Len(r_frames[2].data)

\* the Clients of the roster
Roster == { clients[i] : i \in 1..Len(clients) }

\* C16: coordinated shutdown.  Once Server.quit has returned, Server.active is
\* False and every Client of the roster has active False, whenever it joined.
CoordinatedShutdown ==
    (q_pc = "returned") =>
        /\ ~active
        /\ \A c \in Roster : ~c_active[c]

\* the accept loop is between accept's return and the start of the worker for
\* connection c
InPass(c) == st_conn = c /\ st_pc \in {"client", "append", "thread"}

\* C17: one worker per connection.  No connection has more than one Client or
\* more than one worker thread; once the pass of the loop for an accepted
\* connection is done it has exactly one of each; a worker is started only
\* for a Client already in the roster, which lists each Client once, in the
\* order of accept; every Client holds the key of the server's cipher.
OneWorker ==
    /\ \A c \in Conns :
          /\ c_made[c] <= 1 /\ threads[c] <= 1
          /\ (threads[c] = 1) = (w_pc[c] # "none")
          /\ (threads[c] = 1) => (c_made[c] = 1 /\ c \in Roster)
          /\ (c \in Roster) => c_made[c] = 1
          /\ (c_made[c] = 1) => (c <= accepted /\ c_cipher[c] = cipher_key)
          /\ (c <= accepted /\ ~InPass(c) /\ q_pc # "crashed") =>
                (c_made[c] = 1 /\ threads[c] = 1 /\ c \in Roster)
          /\ (c > accepted) => (c_made[c] = 0 /\ threads[c] = 0)
    /\ \A i \in 1..Len(clients) : clients[i] = i
    /\ cipher_key \in Keys

\* C17 witness: two connections accepted, two Clients in the roster, the worker
\* of each inside recv
OneWorkerWitness ==
    /\ Len(clients) = 2
    /\ \A c \in {1, 2} : threads[c] = 1 /\ w_pc[c] = "header"

\* all that belongs to the Client of connection c, its worker and its connection
ClientState(c) ==
    << c_made[c], c_active[c], c_cipher[c], threads[c], w_pc[c], w_err[c],
       w_len_msg[c], w_data[c], w_recvs[c], w_obj[c], c_wrote[c], c_in[c], c_out[c] >>

\* C18: error isolation.  The accept loop ends on an exception only with the
\* listening socket closed; and a step in which the worker of one connection
\* raises (the ValueError of a malformed header, the cipher's InvalidToken, the
\* error of dumps) leaves Server.active, the accept loop, the listening socket
\* and the roster as they are, and the Client, connection and worker of every
\* other connection.
ErrorIsolation ==
    /\ [](st_pc = "raised" => server = "closed")
    /\ [][\A c \in Conns :
            (w_pc[c] # "raised" /\ w_pc'[c] = "raised") =>
                /\ UNCHANGED << active, server, clients, connected, accepted,
                                st_pc, st_conn >>
                /\ \A d \in Conns \ {c} : ClientState(d)' = ClientState(d)]_vars

\* C18 witness: the worker of connection 1 has raised, the worker of
\* connection 2 is in the payload loop of recv, the accept loop is in accept
ErrorIsolationWitness ==
    /\ w_pc[1] = "raised" /\ w_err[1] \in {"ValueError", "InvalidToken", "NotImplementedError"}
    /\ w_pc[2] = "payload" /\ w_data[2] # <<>>
    /\ active /\ st_pc = "accept"

\* the worker of connection c is inside recv with no byte in flight
Blocked(c) == w_pc[c] \in {"header", "payload"} /\ c_in[c] = <<>>

\* a step of Server.quit
QuitStep == q_pc' # q_pc \/ q_i' # q_i

\* a step of Server.quit changes, besides its own place, only Server.active,
\* the listening socket and the active flags, and a pass of its loop only the
\* flag of the Client it calls quit on
QuitFrame ==
    /\ UNCHANGED << cipher_key_arg, cipher_key, clients, connected, accepted, st_pc, st_conn >>
    /\ UNCHANGED << c_made, c_cipher, threads, w_pc, w_err, w_len_msg, w_data, w_recvs,
                    w_obj, c_wrote, c_in, c_out >>
    /\ (q_pc = "loop" /\ q_i <= Len(clients)) =>
          \A d \in Conns \ {clients[q_i]} : c_active'[d] = c_active[d]
    /\ (q_pc # "loop") => UNCHANGED c_active

\* C20 as stated: every step of Server.quit keeps to QuitFrame, and no step
\* moves a worker that is blocked in recv.
CooperativeCancellationAlways ==
    [][/\ QuitStep => QuitFrame
       /\ \A c \in Conns : Blocked(c) => w_pc'[c] = w_pc[c]]_vars

\* C20, amended: the same of every step but the read of address 5 that
\* quit(force=True) ends with.
CooperativeCancellation ==
    [][(q_pc # "force") =>
          /\ QuitStep => QuitFrame
          /\ \A c \in Conns : Blocked(c) => w_pc'[c] = w_pc[c]]_vars

\* C20 witness: quit() has returned, the Client of connection 1 has active
\* False, and its worker is still blocked in recv
CooperativeCancellationWitness ==
    /\ q_pc = "returned" /\ ~q_force
    /\ 1 \in Roster /\ ~c_active[1]
    /\ Blocked(1)

\* the payload of the frame the worker of connection c wrote
PayloadOut(c) == Drop(c_out[c], header)

====
